---- MODULE Spec2Model ----
(***************************************************************************)
(* Model of the Twilio calling API backend (src/app.py): module start-up   *)
(* (environment read and validation), Flask's request dispatch over the    *)
(* five registered routes, the five view functions and the 404 / 405       *)
(* error handlers.  Every worker thread handles one request at a time; a   *)
(* view function runs atomically and only reads the module globals.        *)
(***************************************************************************)
EXTENDS Integers, Sequences, FiniteSets, TLC

VARIABLES
    environ,     \* os.environ: variable name -> value, None when unset
    phase,       \* "boot" | "aborted" | "serving"
    globals,     \* the module globals assigned at lines 32-40
    startup_error, \* the names carried by the ValueError of line 50
    now,         \* the wall clock, in seconds since the epoch
    pc,          \* per worker: "idle" | "handling" | "done"
    request,     \* per worker: the request being (or last) handled
    response,    \* per worker: the response to it, NoResponse before
    ran,         \* per worker: the function that produced the response
    logged       \* per worker: the log lines the handler emitted

vars == <<environ, phase, globals, startup_error, now, pc, request, response, ran, logged>>

----------------------------------------------------------------------------
\* Bounds of the model.

\* The clock starts here and is advanced by Tick up to Epoch0 + MaxTicks.
Epoch0 == 98
MaxTicks == 2

Workers == {"w1", "w2"}
MainWorker == "w1"

Times == Epoch0 .. (Epoch0 + MaxTicks)

----------------------------------------------------------------------------
\* Python values.

\* Python's None, as returned by os.getenv for an unset variable.
None == "<None>"

\* A Python str whose content matters is a sequence of characters.
DigitChars == <<"0", "1", "2", "3", "4", "5", "6", "7", "8", "9">>

\* str(n) for a non-negative int: its decimal digits.
RECURSIVE IntToStr(_)
IntToStr(n) ==
    IF n < 10 THEN <<DigitChars[n + 1]>>
    ELSE IntToStr(n \div 10) \o <<DigitChars[(n % 10) + 1]>>

\* JSON / Python values carried by the identity field.
JStr(s) == [t |-> "str", s |-> s, n |-> 0]
JNull == [t |-> "None", s |-> <<>>, n |-> 0]
JNum(n) == [t |-> "int", s |-> <<>>, n |-> n]

----------------------------------------------------------------------------
\* Configuration (lines 32-53).

required_vars ==
    <<"TWILIO_ACCOUNT_SID", "TWILIO_AUTH_TOKEN", "TWILIO_API_KEY",
      "TWILIO_API_SECRET", "TWILIO_APP_SID", "TWILIO_PHONE_NUMBER">>

EnvNames == {required_vars[i] : i \in DOMAIN required_vars} \cup {"FIXED_CALL_NUMBER"}

DEFAULT_FIXED_CALL_NUMBER == "+18009359935"

\* os.getenv(name) and os.getenv(name, default).
getenv(env, name) == env[name]
getenv_default(env, name, default) == IF env[name] = None THEN default ELSE env[name]

\* The values an operator may have given each variable: unset, empty, or set.
EnvValues(name) ==
    CASE name = "TWILIO_ACCOUNT_SID" -> {None, "", "AC1"}
      [] name = "TWILIO_AUTH_TOKEN" -> {None, "", "authtok1", "authtok2"}
      [] name = "TWILIO_API_KEY" -> {None, "", "SK1"}
      [] name = "TWILIO_API_SECRET" -> {None, "", "secret1", "secret2"}
      [] name = "TWILIO_APP_SID" -> {None, "", "AP1"}
      [] name = "TWILIO_PHONE_NUMBER" -> {None, "", "+15550001"}
      [] name = "FIXED_CALL_NUMBER" -> {None, "", "+15550199"}

\* Every environment the process may be started in.
Environments ==
    [TWILIO_ACCOUNT_SID : EnvValues("TWILIO_ACCOUNT_SID"),
     TWILIO_AUTH_TOKEN : EnvValues("TWILIO_AUTH_TOKEN"),
     TWILIO_API_KEY : EnvValues("TWILIO_API_KEY"),
     TWILIO_API_SECRET : EnvValues("TWILIO_API_SECRET"),
     TWILIO_APP_SID : EnvValues("TWILIO_APP_SID"),
     TWILIO_PHONE_NUMBER : EnvValues("TWILIO_PHONE_NUMBER"),
     FIXED_CALL_NUMBER : EnvValues("FIXED_CALL_NUMBER")]

\* Python truthiness of an optional str: `not os.getenv(var)`.
Falsy(v) == v = None \/ v = ""

\* Lines 32-40: the module globals read from the environment.
ModuleGlobals(env) ==
    [TWILIO_ACCOUNT_SID |-> getenv(env, "TWILIO_ACCOUNT_SID"),
     TWILIO_AUTH_TOKEN |-> getenv(env, "TWILIO_AUTH_TOKEN"),
     TWILIO_API_KEY |-> getenv(env, "TWILIO_API_KEY"),
     TWILIO_API_SECRET |-> getenv(env, "TWILIO_API_SECRET"),
     TWILIO_APP_SID |-> getenv(env, "TWILIO_APP_SID"),
     TWILIO_PHONE_NUMBER |-> getenv(env, "TWILIO_PHONE_NUMBER"),
     FIXED_CALL_NUMBER |-> getenv_default(env, "FIXED_CALL_NUMBER", DEFAULT_FIXED_CALL_NUMBER)]

\* Faulty variant: only an unset variable counts as missing (`is None`).
missing_vars_unset_only(env) ==
    SelectSeq(required_vars, LAMBDA var : getenv(env, var) = None)

\* Line 48: the required variables that are unset or empty, in order.
missing_vars(env) ==
    SelectSeq(required_vars, LAMBDA var : Falsy(getenv(env, var)))

----------------------------------------------------------------------------
\* Requests.  A request carries its method and path, the outcome of
\* request.get_json(), the fields of request.form, and whether a call inside
\* the view function's try block raises while it is handled (fault): the
\* signing of the token, the building of the voice response, the reading of
\* the call-status form.  The calls of an except branch succeed, so no
\* exception leaves a view function and errorhandler(500) never runs.

\* What request.get_json() does: raises (werkzeug BadRequest on a body that
\* is not JSON), returns None, or returns the parsed value.
JRaise == [k |-> "raise", d |-> <<>>, n |-> 0]
JNone == [k |-> "None", d |-> <<>>, n |-> 0]
JDict(d) == [k |-> "dict", d |-> d, n |-> 0]
JList(n) == [k |-> "list", d |-> <<>>, n |-> n]

EmptyDict == JDict(<<>>)

Alice == <<"a", "l", "i", "c", "e">>

JsonBodies ==
    {JRaise, JNone, EmptyDict, JList(0), JList(1),
     JDict([key \in {"identity"} |-> JStr(Alice)]),
     JDict([key \in {"identity"} |-> JStr(<<>>)]),
     JDict([key \in {"identity"} |-> JNull]),
     JDict([key \in {"identity"} |-> JNum(7)]),
     JDict([key \in {"other"} |-> JStr(Alice)]),
     JDict([key \in {"identity", "other"} |-> JStr(Alice)])}

NoForm == <<>>

\* A form holding the given fields, each with the value a provider sends.
FormValue(field) ==
    CASE field = "From" -> "client:alice"
      [] field = "To" -> "+15550142"
      [] field = "CallSid" -> "CA1"
      [] field = "CallStatus" -> "completed"
      [] field = "CallDuration" -> "42"

Form(fields) == [f \in fields |-> FormValue(f)]

VoiceForms ==
    {Form(fs) : fs \in SUBSET {"From", "CallSid"}}
        \cup {[f \in {"From"} |-> "+15550142"],
              [f \in {"From", "CallSid"} |-> IF f = "From" THEN "+15550142" ELSE "CA2"]}

StatusForms ==
    {Form(fs \cup ft) : fs \in SUBSET {"CallSid", "CallStatus", "CallDuration"},
                        ft \in {{}, {"From", "To"}}}

Methods == {"GET", "POST", "HEAD", "OPTIONS", "DELETE"}

Paths ==
    {"/api/health", "/api/calling/token", "/api/calling/voice",
     "/api/calling/call-status", "/api/calling/config", "/api/unknown"}

Req(method, path, json, form, fault) ==
    [method |-> method, path |-> path, json |-> json, form |-> form, fault |-> fault]

\* The requests a client or the provider may send.
Requests ==
    {Req(m, p, JNone, NoForm, "none") : m \in Methods, p \in Paths}
        \cup {Req("POST", "/api/calling/token", j, NoForm, "none") : j \in JsonBodies}
        \cup {Req("POST", "/api/calling/token", j, NoForm, "raise") :
                j \in {EmptyDict, JDict([key \in {"identity"} |-> JStr(Alice)])}}
        \cup {Req("POST", "/api/calling/voice", JNone, f, "none") : f \in VoiceForms}
        \cup {Req("POST", "/api/calling/voice", JNone, f, "raise") :
                f \in {NoForm, Form({"From", "CallSid"})}}
        \cup {Req("POST", "/api/calling/call-status", JNone, f, "none") : f \in StatusForms}
        \cup {Req("POST", "/api/calling/call-status", JNone, f, "raise") :
                f \in {NoForm, Form({"CallSid", "CallStatus", "CallDuration", "From", "To"})}}

\* The requests in flight when several workers serve at once.
ConcurrentRequests ==
    {Req("GET", "/api/health", JNone, NoForm, "none"),
     Req("GET", "/api/calling/config", JNone, NoForm, "none"),
     Req("HEAD", "/api/calling/config", JNone, NoForm, "none"),
     Req("DELETE", "/api/calling/config", JNone, NoForm, "none"),
     Req("OPTIONS", "/api/calling/voice", JNone, NoForm, "none"),
     Req("GET", "/api/unknown", JNone, NoForm, "none"),
     Req("POST", "/api/calling/token", EmptyDict, NoForm, "none"),
     Req("POST", "/api/calling/token", JDict([key \in {"identity"} |-> JStr(Alice)]), NoForm, "none"),
     Req("POST", "/api/calling/token", EmptyDict, NoForm, "raise"),
     Req("POST", "/api/calling/voice", JNone, Form({"From", "CallSid"}), "none"),
     Req("POST", "/api/calling/voice", JNone, NoForm, "raise"),
     Req("POST", "/api/calling/call-status", JNone, Form({"CallSid", "CallStatus"}), "none"),
     Req("POST", "/api/calling/call-status", JNone, NoForm, "raise")}

----------------------------------------------------------------------------
\* Routing (the @app.route decorators and Flask's dispatch).

url_map ==
    {[rule |-> "/api/health", methods |-> {"GET"}, endpoint |-> "health_check"],
     [rule |-> "/api/calling/token", methods |-> {"POST"}, endpoint |-> "generate_access_token"],
     [rule |-> "/api/calling/voice", methods |-> {"POST"}, endpoint |-> "handle_voice_webhook"],
     [rule |-> "/api/calling/call-status", methods |-> {"POST"}, endpoint |-> "handle_call_status"],
     [rule |-> "/api/calling/config", methods |-> {"GET"}, endpoint |-> "get_calling_config"]}

\* The methods a rule answers: Flask answers HEAD wherever GET is
\* registered, and OPTIONS on every rule.
RuleMethods(r) ==
    r.methods \cup (IF "GET" \in r.methods THEN {"HEAD"} ELSE {}) \cup {"OPTIONS"}

Matching(req) == {r \in url_map : r.rule = req.path}

\* Faulty variant: a known path with a method it does not answer is reported as an
\* unknown path.
Dispatch_by_path_only(req) ==
    IF Matching(req) = {} THEN "not_found"
    ELSE LET r == CHOOSE r \in Matching(req) : TRUE
         IN IF req.method \notin RuleMethods(r) THEN "not_found"
            ELSE IF req.method = "OPTIONS" THEN "automatic_options"
            ELSE r.endpoint

\* The function Flask runs for a request: a view function, its automatic
\* OPTIONS response, or the handler of the routing error.
Dispatch(req) ==
    IF Matching(req) = {} THEN "not_found"
    ELSE LET r == CHOOSE r \in Matching(req) : TRUE
         IN IF req.method \notin RuleMethods(r) THEN "method_not_allowed"
            ELSE IF req.method = "OPTIONS" THEN "automatic_options"
            ELSE r.endpoint

----------------------------------------------------------------------------
\* Responses.

EmptyBody == [kind |-> "empty"]
JsonBody(obj) == [kind |-> "json", json |-> obj]
XmlBody(root) == [kind |-> "xml", xml |-> root]

\* flask.jsonify(obj): status 200 unless the view returns another one.
jsonify(obj, status) ==
    [status |-> status, content_type |-> "application/json", body |-> JsonBody(obj)]

LogLine(level, msg, args) == [level |-> level, msg |-> msg, args |-> args]

\* What a view function gives back: its response and the lines it logged.
Result(resp, lines) == [response |-> resp, logged |-> lines]

\* Lines 59-67.
health_check(g, req, t) ==
    Result(jsonify([status |-> "healthy",
                    service |-> "Twilio Calling API",
                    timestamp |-> [isoformat |-> t],
                    version |-> "1.0.0"], 200),
           <<>>)

----------------------------------------------------------------------------
\* Token issuance (lines 69-124).

TOKEN_TTL == 3600
EXPIRES_IN == 3600

\* An exception and the text str(e) gives for it.
Exc(type, text) == [type |-> type, text |-> text]

BadRequest ==
    Exc("BadRequest",
        "400 Bad Request: The browser (or proxy) sent a request that this server could not understand.")
AttributeError == Exc("AttributeError", "'list' object has no attribute 'get'")
SigningError == Exc("Exception", "could not sign the access token")
DirectiveError == Exc("Exception", "could not build the voice response")
FormError == Exc("Exception", "could not read the request form")

\* Python truthiness of the value request.get_json() returned.
Truthy(j) ==
    CASE j.k = "dict" -> DOMAIN j.d # {}
      [] j.k = "list" -> j.n > 0
      [] OTHER -> FALSE

\* dict.get(key, default): the default only when the key is absent.
dict_get(d, key, default) == IF key \in DOMAIN d THEN d[key] ELSE default

\* f"caller_{int(datetime.now().timestamp())}"
CallerPrefix == <<"c", "a", "l", "l", "e", "r", "_">>

\* Faulty variant: the timestamp is left out of the generated identity.
default_identity_unstamped(t) == JStr(CallerPrefix)

default_identity(t) == JStr(CallerPrefix \o IntToStr(t))

\* Faulty variant: the identity is always generated, the supplied one ignored.
user_identity_generated(data, t) == default_identity(t)

\* Line 91.
user_identity(data, t) == dict_get(data.d, "identity", default_identity(t))

\* Lines 105-108.
VoiceGrant(outgoing_application_sid, incoming_allow) ==
    [outgoing_application_sid |-> outgoing_application_sid,
     incoming_allow |-> incoming_allow]

\* Faulty variant: the grant allows incoming calls.
voice_grant_incoming(g) == VoiceGrant(g.TWILIO_APP_SID, TRUE)

voice_grant(g) == VoiceGrant(g.TWILIO_APP_SID, FALSE)

\* Lines 96-102 and 109: the access token with its grant added.
AccessToken(account_sid, signing_key_sid, secret, identity, ttl, grant) ==
    [account_sid |-> account_sid, signing_key_sid |-> signing_key_sid,
     secret |-> secret, identity |-> identity, ttl |-> ttl, grants |-> <<grant>>]

\* token.to_jwt() at time t: the claims, signed with the token's secret.
to_jwt(token, t) ==
    [payload |-> [jti |-> <<token.signing_key_sid, t>>,
                  iss |-> token.signing_key_sid,
                  sub |-> token.account_sid,
                  exp |-> t + token.ttl,
                  grants |-> [identity |-> token.identity,
                              voice |-> token.grants[1]]],
     signature |-> [alg |-> "HS256", key |-> token.secret]]

\* Faulty variant: the error text reports the key the token was signed with.
token_error_with_key(g, e) ==
    Result(jsonify([success |-> FALSE,
                    error |-> g.TWILIO_API_SECRET,
                    message |-> "Failed to generate access token"], 500),
           <<LogLine("ERROR", "Error generating token", <<e.text>>)>>)

\* Lines 118-124.
token_error(g, e) ==
    Result(jsonify([success |-> FALSE,
                    error |-> e.text,
                    message |-> "Failed to generate access token"], 500),
           <<LogLine("ERROR", "Error generating token", <<e.text>>)>>)

\* Lines 111-116.
token_success(g, identity, t) ==
    LET token == AccessToken(g.TWILIO_ACCOUNT_SID, g.TWILIO_API_KEY,
                             g.TWILIO_API_SECRET, identity, TOKEN_TTL, voice_grant(g))
    IN jsonify([success |-> TRUE,
                token |-> to_jwt(token, t),
                identity |-> identity,
                expires_in |-> EXPIRES_IN], 200)

\* Lines 87-124.
generate_access_token(g, req, t) ==
    IF req.json.k = "raise" THEN token_error(g, BadRequest)
    ELSE LET data == IF Truthy(req.json) THEN req.json ELSE EmptyDict
         IN IF data.k # "dict" THEN token_error(g, AttributeError)
            ELSE LET identity == user_identity(data, t)
                     line == LogLine("INFO", "Generating token for identity", <<identity>>)
                 IN IF req.fault = "raise"
                    THEN LET failed == token_error(g, SigningError)
                         IN Result(failed.response, <<line>> \o failed.logged)
                    ELSE Result(token_success(g, identity, t), <<line>>)

----------------------------------------------------------------------------
\* Voice webhook (lines 126-165).

DIAL_TIMEOUT == 30

Element(tag, attrs, children, text) ==
    [tag |-> tag, attrs |-> attrs, children |-> children, text |-> text]

\* str(VoiceResponse()) with the given verbs appended: one Response root.
VoiceResponse(verbs) == Element("Response", <<>>, verbs, "")

\* request.form.get(key, default)
form_get(form, key, default) == IF key \in DOMAIN form THEN form[key] ELSE default

APOLOGY == "Sorry, there was an error connecting your call. Please try again later."

\* Faulty variant: the call is routed to the number the request names.
dial_requested_number(g, req) ==
    Element("Dial",
            [callerId |-> g.TWILIO_PHONE_NUMBER,
             timeout |-> DIAL_TIMEOUT,
             action |-> "/api/calling/call-status",
             method |-> "POST"],
            <<Element("Number", <<>>, <<>>, form_get(req.form, "From", g.FIXED_CALL_NUMBER))>>,
            "")

\* Lines 146-152: response.dial(...) with one number noun.
dial(g, req) ==
    Element("Dial",
            [callerId |-> g.TWILIO_PHONE_NUMBER,
             timeout |-> DIAL_TIMEOUT,
             action |-> "/api/calling/call-status",
             method |-> "POST"],
            <<Element("Number", <<>>, <<>>, g.FIXED_CALL_NUMBER)>>,
            "")

\* Faulty variant: the failure is answered with an empty body.
voice_error_empty(g, e) ==
    Result([status |-> 500, content_type |-> "text/xml", body |-> EmptyBody],
           <<LogLine("ERROR", "Voice webhook error", <<e.text>>)>>)

\* Lines 158-165.
voice_error(g, e) ==
    Result([status |-> 500, content_type |-> "text/xml",
            body |-> XmlBody(VoiceResponse(<<Element("Say", <<>>, <<>>, APOLOGY)>>))],
           <<LogLine("ERROR", "Voice webhook error", <<e.text>>)>>)

\* Lines 134-165.
handle_voice_webhook(g, req, t) ==
    LET caller_identity == form_get(req.form, "From", "Unknown")
        call_sid == form_get(req.form, "CallSid", "Unknown")
        lines == <<LogLine("INFO", "Voice webhook", <<call_sid, caller_identity>>),
                   LogLine("INFO", "Routing call to fixed number", <<g.FIXED_CALL_NUMBER>>)>>
    IN IF req.fault = "raise"
       THEN LET failed == voice_error(g, DirectiveError)
            IN Result(failed.response, lines \o failed.logged)
       ELSE Result([status |-> 200, content_type |-> "text/xml",
                    body |-> XmlBody(VoiceResponse(<<dial(g, req)>>))],
                   lines \o <<LogLine("INFO", "Generated TwiML for call", <<call_sid>>)>>)

----------------------------------------------------------------------------
\* Call-status webhook (lines 167-189).

\* Flask's response to a view returning ('', status).
empty_response(status) ==
    [status |-> status, content_type |-> "text/html", body |-> EmptyBody]

\* Faulty variant: the exception is swallowed and the webhook answers 200.
handle_call_status_swallow(g, req, t) ==
    Result(empty_response(200),
           IF req.fault = "raise"
           THEN <<LogLine("ERROR", "Call status webhook error", <<FormError.text>>)>>
           ELSE <<LogLine("INFO", "Call status update",
                          <<form_get(req.form, "CallSid", None),
                            form_get(req.form, "CallStatus", None),
                            form_get(req.form, "CallDuration", "0")>>)>>)

\* Lines 173-189.
handle_call_status(g, req, t) ==
    IF req.fault = "raise"
    THEN Result(empty_response(500),
                <<LogLine("ERROR", "Call status webhook error", <<FormError.text>>)>>)
    ELSE LET call_sid == form_get(req.form, "CallSid", None)
             call_status == form_get(req.form, "CallStatus", None)
             call_duration == form_get(req.form, "CallDuration", "0")
         IN Result(empty_response(200),
                   <<LogLine("INFO", "Call status update",
                             <<call_sid, call_status, call_duration>>)>>)

----------------------------------------------------------------------------
\* Config query (lines 191-215).

MAX_CALL_DURATION == 1800
CONCURRENT_CALLS == 1

\* Faulty variant: the configuration carries the time it was generated at.
get_calling_config_stamped(g, req, t) ==
    Result(jsonify([success |-> TRUE,
                    generated_at |-> [isoformat |-> t],
                    config |-> [fixed_number |-> g.FIXED_CALL_NUMBER,
                                display_number |-> g.FIXED_CALL_NUMBER]], 200),
           <<>>)

\* Lines 197-215.
get_calling_config(g, req, t) ==
    Result(jsonify([success |-> TRUE,
                    config |-> [fixed_number |-> g.FIXED_CALL_NUMBER,
                                display_number |-> g.FIXED_CALL_NUMBER,
                                service_name |-> "Customer Service",
                                features |-> [outgoing_calls |-> TRUE,
                                              incoming_calls |-> FALSE,
                                              call_recording |-> FALSE,
                                              mute |-> TRUE,
                                              hold |-> FALSE],
                                limits |-> [max_call_duration |-> MAX_CALL_DURATION,
                                            concurrent_calls |-> CONCURRENT_CALLS]]], 200),
           <<>>)

----------------------------------------------------------------------------
\* Error handlers (lines 221-235) and Flask's automatic OPTIONS response.

not_found(g, req, t) ==
    Result(jsonify([success |-> FALSE,
                    error |-> "Endpoint not found",
                    message |-> "The requested API endpoint does not exist"], 404),
           <<>>)

method_not_allowed(g, req, t) ==
    Result(jsonify([success |-> FALSE,
                    error |-> "Method not allowed",
                    message |-> "The HTTP method is not allowed for this endpoint"], 405),
           <<>>)

automatic_options(g, req, t) ==
    Result([status |-> 200, content_type |-> "text/html", body |-> EmptyBody,
            allow |-> UNION {RuleMethods(r) : r \in Matching(req)}],
           <<>>)

\* The result of the function Dispatch names.
Call(name, g, req, t) ==
    CASE name = "health_check" -> health_check(g, req, t)
      [] name = "generate_access_token" -> generate_access_token(g, req, t)
      [] name = "handle_voice_webhook" -> handle_voice_webhook(g, req, t)
      [] name = "handle_call_status" -> handle_call_status(g, req, t)
      [] name = "get_calling_config" -> get_calling_config(g, req, t)
      [] name = "not_found" -> not_found(g, req, t)
      [] name = "method_not_allowed" -> method_not_allowed(g, req, t)
      [] name = "automatic_options" -> automatic_options(g, req, t)

\* The response as sent: a HEAD request gets the headers without the body.
Sent(req, resp) == IF req.method = "HEAD" THEN [resp EXCEPT !.body = EmptyBody] ELSE resp

\* What the server answers to req when it handles it at time t with globals g.
Handle(g, req, t) ==
    LET res == Call(Dispatch(req), g, req, t)
    IN Result(Sent(req, res.response), res.logged)

----------------------------------------------------------------------------
\* The state machine.

NoGlobals == [n \in {} |-> None]

NoResponse == [status |-> 0]
NoRequest == [method |-> "", path |-> ""]

Init ==
    /\ environ \in Environments
    /\ phase = "boot"
    /\ globals = NoGlobals
    /\ startup_error = <<>>
    /\ now = Epoch0
    /\ pc = [w \in Workers |-> "idle"]
    /\ request = [w \in Workers |-> NoRequest]
    /\ response = [w \in Workers |-> NoResponse]
    /\ ran = [w \in Workers |-> None]
    /\ logged = [w \in Workers |-> <<>>]

\* Lines 32-53: the module body.  The globals are assigned, then the
\* required variables are validated; a missing one raises ValueError and the
\* process never reaches app.run.
Startup ==
    /\ phase = "boot"
    /\ globals' = ModuleGlobals(environ)
    /\ IF missing_vars(environ) # <<>>
       THEN /\ phase' = "aborted"
            /\ startup_error' = missing_vars(environ)
       ELSE /\ phase' = "serving"
            /\ startup_error' = <<>>
    /\ UNCHANGED <<environ, now, pc, request, response, ran, logged>>

\* The wall clock advances between (and during) requests.
Tick ==
    /\ phase = "serving"
    /\ now < Epoch0 + MaxTicks
    /\ now' = now + 1
    /\ UNCHANGED <<environ, phase, globals, startup_error, pc, request, response, ran, logged>>

\* A worker thread takes the next request.
Accept(w, req) ==
    /\ phase = "serving"
    /\ pc[w] # "handling"
    /\ pc' = [pc EXCEPT ![w] = "handling"]
    /\ request' = [request EXCEPT ![w] = req]
    /\ response' = [response EXCEPT ![w] = NoResponse]
    /\ ran' = [ran EXCEPT ![w] = None]
    /\ logged' = [logged EXCEPT ![w] = <<>>]
    /\ UNCHANGED <<environ, phase, globals, startup_error, now>>

\* Worker w runs the function `name` on its request and sends the response.
Run(w, name) ==
    /\ LET res == Handle(globals, request[w], now)
       IN /\ response' = [response EXCEPT ![w] = res.response]
          /\ logged' = [logged EXCEPT ![w] = res.logged]
    /\ ran' = [ran EXCEPT ![w] = name]
    /\ pc' = [pc EXCEPT ![w] = "done"]
    /\ UNCHANGED <<environ, phase, globals, startup_error, now, request>>

\* Flask dispatches the request worker w holds to the function `name`.
Dispatched(w, name) ==
    /\ phase = "serving"
    /\ pc[w] = "handling"
    /\ Dispatch(request[w]) = name

HealthCheck(w) ==
    /\ Dispatched(w, "health_check")
    /\ Run(w, "health_check")

GenerateAccessToken(w) ==
    /\ Dispatched(w, "generate_access_token")
    /\ Run(w, "generate_access_token")

HandleVoiceWebhook(w) ==
    /\ Dispatched(w, "handle_voice_webhook")
    /\ Run(w, "handle_voice_webhook")

HandleCallStatus(w) ==
    /\ Dispatched(w, "handle_call_status")
    /\ Run(w, "handle_call_status")

GetCallingConfig(w) ==
    /\ Dispatched(w, "get_calling_config")
    /\ Run(w, "get_calling_config")

NotFound(w) ==
    /\ Dispatched(w, "not_found")
    /\ Run(w, "not_found")

MethodNotAllowed(w) ==
    /\ Dispatched(w, "method_not_allowed")
    /\ Run(w, "method_not_allowed")

AutomaticOptions(w) ==
    /\ Dispatched(w, "automatic_options")
    /\ Run(w, "automatic_options")

\* The functions Flask may run for the request a worker holds.
Serve(w) ==
    \/ HealthCheck(w)
    \/ GenerateAccessToken(w)
    \/ HandleVoiceWebhook(w)
    \/ HandleCallStatus(w)
    \/ GetCallingConfig(w)
    \/ NotFound(w)
    \/ MethodNotAllowed(w)
    \/ AutomaticOptions(w)

\* One worker thread, every request.
Next ==
    \/ Startup
    \/ Tick
    \/ \E req \in Requests : Accept(MainWorker, req)
    \/ Serve(MainWorker)

Spec == Init /\ [][Next]_vars

\* Several worker threads handling requests at the same time.
NextConcurrent ==
    \/ Startup
    \/ Tick
    \/ \E w \in Workers, req \in ConcurrentRequests : Accept(w, req)
    \/ \E w \in Workers : Serve(w)

SpecConcurrent == Init /\ [][NextConcurrent]_vars

----------------------------------------------------------------------------
\* Properties.

Done(w) == pc[w] = "done"

IsPost(req, path) == req.method = "POST" /\ req.path = path

\* The configuration the process was started with.
StartupConfig == ModuleGlobals(environ)

\* The verbs of a markup document with the given tag.
Verbs(root, tag) == {i \in DOMAIN root.children : root.children[i].tag = tag}

\* C1: every POST /api/calling/voice that is handled without an internal
\* failure, whatever From and CallSid it carries (none included), is answered
\* 200 with markup holding exactly one Dial whose single Number is the
\* configured destination number, and the answer is the same for every other
\* choice of From / CallSid.
C1_VoiceDialsFixedNumber ==
    \A w \in Workers :
        (Done(w) /\ IsPost(request[w], "/api/calling/voice") /\ request[w].fault = "none") =>
            /\ response[w].status = 200
            /\ response[w].body.kind = "xml"
            /\ response[w].body.xml.tag = "Response"
            /\ Cardinality(Verbs(response[w].body.xml, "Dial")) = 1
            /\ \A i \in Verbs(response[w].body.xml, "Dial") :
                 LET d == response[w].body.xml.children[i]
                 IN /\ Len(d.children) = 1
                    /\ d.children[1].tag = "Number"
                    /\ d.children[1].text = StartupConfig.FIXED_CALL_NUMBER
            /\ \A f \in VoiceForms :
                 Handle(globals, [request[w] EXCEPT !.form = f], now).response = response[w]

C1_Witness ==
    \E w \in Workers :
        /\ Done(w) /\ IsPost(request[w], "/api/calling/voice")
        /\ request[w].fault = "none"
        /\ "From" \in DOMAIN request[w].form
        /\ request[w].form["From"] = "+15550142"
        /\ response[w].status = 200

\* C2: every grant returned by a successful POST /api/calling/token has
\* incoming calls disabled, is bound to the configured application
\* identifier and expires exactly 3600 seconds after it was issued, and the
\* response reports expires_in = 3600.
C2_GrantOutboundOnly ==
    \A w \in Workers :
        (Done(w) /\ IsPost(request[w], "/api/calling/token") /\ response[w].status = 200) =>
            LET body == response[w].body.json
                claims == body.token.payload
            IN /\ body.success = TRUE
               /\ claims.grants.voice.incoming_allow = FALSE
               /\ claims.grants.voice.outgoing_application_sid = environ.TWILIO_APP_SID
               /\ claims.exp - claims.jti[2] = 3600
               /\ claims.jti[2] \in Times /\ claims.jti[2] <= now
               /\ body.expires_in = 3600

C2_Witness ==
    \E w \in Workers :
        /\ Done(w) /\ IsPost(request[w], "/api/calling/token")
        /\ response[w].status = 200
        /\ now > Epoch0

\* The request's JSON body is an object carrying the key identity.
CarriesIdentity(req) == req.json.k = "dict" /\ "identity" \in DOMAIN req.json.d

\* C3: a POST /api/calling/token whose JSON body carries identity = X, handled
\* without an internal failure, succeeds, returns identity X exactly, and X
\* is the identity of the issued grant.
C3_IdentityEchoed ==
    \A w \in Workers :
        (/\ Done(w) /\ IsPost(request[w], "/api/calling/token")
         /\ CarriesIdentity(request[w]) /\ request[w].fault = "none") =>
            /\ response[w].status = 200
            /\ response[w].body.json.success = TRUE
            /\ response[w].body.json.identity = request[w].json.d["identity"]
            /\ response[w].body.json.token.payload.grants.identity = request[w].json.d["identity"]

C3_Witness ==
    \E w \in Workers :
        /\ Done(w) /\ IsPost(request[w], "/api/calling/token")
        /\ CarriesIdentity(request[w]) /\ request[w].fault = "none"
        /\ request[w].json.d["identity"] = JStr(Alice)
        /\ response[w].status = 200

Digits == {DigitChars[i] : i \in DOMAIN DigitChars}

\* The value is a str of the form caller_<integer>.
IsCallerTimestamp(v) ==
    /\ v.t = "str"
    /\ Len(v.s) > Len(CallerPrefix)
    /\ SubSeq(v.s, 1, Len(CallerPrefix)) = CallerPrefix
    /\ \A i \in (Len(CallerPrefix) + 1) .. Len(v.s) : v.s[i] \in Digits

\* The parsed body supplies no usable identity: there is no body value, or
\* it is an object whose identity is absent, null or empty.
NoUsableIdentity(req) ==
    \/ req.json.k = "None"
    \/ /\ req.json.k = "dict"
       /\ \/ "identity" \notin DOMAIN req.json.d
          \/ req.json.d["identity"] \in {JNull, JStr(<<>>)}

\* C4 as stated: a POST /api/calling/token that supplies no identity (no
\* body value, an empty object, or a body without a usable identity), handled
\* without an internal failure, succeeds with an identity of the form
\* caller_<integer>, which is also the identity of the issued grant.
C4_AsStated ==
    \A w \in Workers :
        (/\ Done(w) /\ IsPost(request[w], "/api/calling/token")
         /\ NoUsableIdentity(request[w]) /\ request[w].fault = "none") =>
            /\ response[w].status = 200
            /\ IsCallerTimestamp(response[w].body.json.identity)
            /\ response[w].body.json.token.payload.grants.identity = response[w].body.json.identity

DigitValue(c) == (CHOOSE i \in DOMAIN DigitChars : DigitChars[i] = c) - 1

\* int(s) for a str of decimal digits.
RECURSIVE StrToInt(_)
StrToInt(s) ==
    IF Len(s) = 0 THEN 0
    ELSE 10 * StrToInt(SubSeq(s, 1, Len(s) - 1)) + DigitValue(s[Len(s)])

\* The parsed body has no identity key: request.get_json() returned None, a
\* falsy value, or an object without the key.
NoIdentityKey(req) ==
    \/ req.json.k = "None"
    \/ req.json.k = "list" /\ req.json.n = 0
    \/ req.json.k = "dict" /\ "identity" \notin DOMAIN req.json.d

\* C4, amended: a POST /api/calling/token whose parsed body has no identity
\* key, handled without an internal failure, succeeds with the identity
\* caller_<t>, t the clock's seconds when the request was handled, which is
\* also the identity of the issued grant; an identity given as null or empty
\* is returned as given.
C4_DefaultIdentityWhenKeyAbsent ==
    \A w \in Workers :
        (/\ Done(w) /\ IsPost(request[w], "/api/calling/token")
         /\ request[w].fault = "none") =>
            /\ NoIdentityKey(request[w]) =>
                 LET body == response[w].body.json
                 IN /\ response[w].status = 200
                    /\ IsCallerTimestamp(body.identity)
                    /\ StrToInt(SubSeq(body.identity.s, Len(CallerPrefix) + 1,
                                       Len(body.identity.s))) = body.token.payload.jti[2]
                    /\ body.token.payload.jti[2] \in Times
                    /\ body.token.payload.grants.identity = body.identity
            /\ (CarriesIdentity(request[w])
                    /\ request[w].json.d["identity"] \in {JNull, JStr(<<>>)}) =>
                 /\ response[w].status = 200
                 /\ response[w].body.json.identity = request[w].json.d["identity"]

C4_Witness ==
    \E w \in Workers :
        /\ Done(w) /\ IsPost(request[w], "/api/calling/token")
        /\ request[w].json = EmptyDict /\ request[w].fault = "none"
        /\ response[w].status = 200
        /\ response[w].body.json.identity = JStr(CallerPrefix \o <<"1", "0", "0">>)

\* The secrets the process may hold.
ApiSecrets == EnvValues("TWILIO_API_SECRET") \ {None, ""}
AuthTokens == EnvValues("TWILIO_AUTH_TOKEN") \ {None, ""}

\* Token issuance fails for this request.
TokenFails(req) ==
    \/ req.json.k = "raise"
    \/ req.json.k = "list" /\ req.json.n > 0
    \/ req.fault = "raise"

C6_VoiceFailureSpeaksApology ==
    \A w \in Workers :
        (Done(w) /\ IsPost(request[w], "/api/calling/voice")) =>
            /\ response[w].body.kind = "xml"
            /\ response[w].body.xml.tag = "Response"
            /\ response[w].body.xml.children # <<>>
            /\ request[w].fault = "raise" <=> response[w].status = 500
            /\ request[w].fault = "raise" =>
                 /\ response[w].content_type =
                      Handle(StartupConfig, [request[w] EXCEPT !.fault = "none"], now).response.content_type
                 /\ Len(response[w].body.xml.children) = 1
                 /\ response[w].body.xml.children[1].tag = "Say"
                 /\ response[w].body.xml.children[1].text = APOLOGY
                 /\ Verbs(response[w].body.xml, "Dial") = {}

C6_Witness ==
    \E w \in Workers :
        /\ Done(w) /\ IsPost(request[w], "/api/calling/voice")
        /\ request[w].fault = "raise"
        /\ "From" \in DOMAIN request[w].form
        /\ response[w].status = 500

\* C7: POST /api/calling/call-status answers 200 with an empty body whatever
\* fields the form holds, 500 with an empty body when an exception is raised
\* inside it, and the step changes nothing but the worker's own response and
\* log output.
C7_CallStatusIsSink ==
    [][\A w \in Workers :
          HandleCallStatus(w) =>
            /\ response'[w].status = (IF request[w].fault = "raise" THEN 500 ELSE 200)
            /\ response'[w].body = EmptyBody
            /\ UNCHANGED <<environ, phase, globals, startup_error, now, request>>
            /\ \A v \in Workers \ {w} :
                 /\ response'[v] = response[v]
                 /\ pc'[v] = pc[v]
                 /\ logged'[v] = logged[v]]_vars

C7_Witness ==
    \E w \in Workers :
        /\ Done(w) /\ IsPost(request[w], "/api/calling/call-status")
        /\ ran[w] = "handle_call_status"
        /\ request[w].fault = "none"
        /\ DOMAIN request[w].form = {"CallStatus"}
        /\ response[w].status = 200

Required == {required_vars[i] : i \in DOMAIN required_vars}

\* The setting is unset or empty.
Absent(v) == v = None \/ v = ""

\* Start-up is fail-fast on the six required settings.
FailFast ==
    /\ phase = "aborted" <=>
         (phase # "boot" /\ \E var \in Required : Absent(environ[var]))
    /\ phase = "aborted" =>
         /\ {startup_error[i] : i \in DOMAIN startup_error} =
              {var \in Required : Absent(environ[var])}
         /\ \A w \in Workers : pc[w] = "idle"
    /\ \A w \in Workers :
         pc[w] # "idle" =>
            /\ phase = "serving"
            /\ \A var \in Required : ~Absent(environ[var])

\* C8 as stated: start-up aborts before any request is served when one of the
\* six required settings is absent (unset or empty), a request is handled
\* only with all six present, and the destination number is never required
\* and is the fixed literal whenever it is absent (unset or empty).
C8_AsStated ==
    /\ FailFast
    /\ phase = "serving" =>
         (Absent(environ.FIXED_CALL_NUMBER) =>
            globals.FIXED_CALL_NUMBER = DEFAULT_FIXED_CALL_NUMBER)

\* C8, amended: as stated, except that the destination number is the fixed
\* literal only when it is unset; set to any value, the empty one included,
\* it is used as given.
C8_FailFastStartup ==
    /\ FailFast
    /\ phase = "serving" =>
         globals.FIXED_CALL_NUMBER =
            (IF environ.FIXED_CALL_NUMBER = None THEN DEFAULT_FIXED_CALL_NUMBER
             ELSE environ.FIXED_CALL_NUMBER)

C8_Witness ==
    /\ phase = "serving"
    /\ environ.FIXED_CALL_NUMBER = None
    /\ globals.FIXED_CALL_NUMBER = DEFAULT_FIXED_CALL_NUMBER
    /\ \E w \in Workers : Done(w) /\ ran[w] = "get_calling_config"

IsConfigQuery(req) == req.method = "GET" /\ req.path = "/api/calling/config"

\* C9: whatever requests the workers handle and however they interleave, the
\* configuration stays the one read at start-up, every response is the one
\* its request gets when handled alone at some time, and every
\* GET /api/calling/config returns the same body, with fixed_number and
\* display_number both the configured destination number.
C9_HandlersShareNoState ==
    /\ phase = "serving" => globals = StartupConfig
    /\ \A w \in Workers :
         Done(w) =>
            \E t \in Times :
               /\ t <= now
               /\ response[w] = Handle(StartupConfig, request[w], t).response
    /\ \A w \in Workers :
         (Done(w) /\ IsConfigQuery(request[w])) =>
            /\ response[w].status = 200
            /\ response[w].body.json.config.fixed_number = StartupConfig.FIXED_CALL_NUMBER
            /\ response[w].body.json.config.display_number = StartupConfig.FIXED_CALL_NUMBER
            /\ \A v \in Workers :
                 (Done(v) /\ IsConfigQuery(request[v])) => response[v] = response[w]

C9_Witness ==
    /\ Done("w1") /\ IsConfigQuery(request["w1"])
    /\ Done("w2") /\ IsConfigQuery(request["w2"])
    /\ now > Epoch0

KnownPaths == {r.rule : r \in url_map}

\* The method registered for a known path.
Registered(path) == UNION {r.methods : r \in {q \in url_map : q.rule = path}}

IsEnvelope(resp, status) ==
    /\ resp.status = status
    /\ resp.body.kind = "json"
    /\ DOMAIN resp.body.json = {"success", "error", "message"}
    /\ resp.body.json.success = FALSE

ErrorHandlers == {"not_found", "method_not_allowed"}

\* C10 as stated: a request to a path that is none of the five endpoints gets
\* 404 with the JSON envelope, a request to a known path with a method other
\* than the registered one gets 405 with the envelope, and no view function
\* runs in either case.
C10_AsStated ==
    \A w \in Workers :
        Done(w) =>
            /\ request[w].path \notin KnownPaths =>
                 IsEnvelope(response[w], 404) /\ ran[w] = "not_found"
            /\ (request[w].path \in KnownPaths
                    /\ request[w].method \notin Registered(request[w].path)) =>
                 IsEnvelope(response[w], 405) /\ ran[w] = "method_not_allowed"

\* C10, amended: every request is answered and the server keeps serving.  An
\* unknown path gets 404 from not_found, and a known path with a method
\* other than the registered one, HEAD on a GET endpoint and OPTIONS apart,
\* gets 405 from method_not_allowed, both with the JSON envelope (a HEAD
\* request gets the status without the body) and without a view function
\* running.  OPTIONS on a known path gets Flask's automatic 200 with no view
\* function run; HEAD on a GET endpoint runs the view and gets 200 with no
\* body.
C10_DispatchIsTotal ==
    \A w \in Workers :
        Done(w) =>
            /\ phase = "serving"
            /\ response[w] # NoResponse
            /\ request[w].path \notin KnownPaths =>
                 /\ ran[w] = "not_found"
                 /\ IF request[w].method = "HEAD"
                    THEN response[w].status = 404 /\ response[w].body = EmptyBody
                    ELSE IsEnvelope(response[w], 404)
            /\ (/\ request[w].path \in KnownPaths
                /\ request[w].method \notin Registered(request[w].path)
                /\ request[w].method # "OPTIONS"
                /\ ~(request[w].method = "HEAD" /\ "GET" \in Registered(request[w].path))) =>
                 /\ ran[w] = "method_not_allowed"
                 /\ IF request[w].method = "HEAD"
                    THEN response[w].status = 405 /\ response[w].body = EmptyBody
                    ELSE IsEnvelope(response[w], 405)
            /\ (request[w].path \in KnownPaths /\ request[w].method = "OPTIONS") =>
                 /\ ran[w] = "automatic_options"
                 /\ response[w].status = 200
                 /\ response[w].body = EmptyBody
            /\ (/\ request[w].path \in KnownPaths
                /\ request[w].method = "HEAD"
                /\ "GET" \in Registered(request[w].path)) =>
                 /\ ran[w] \notin ErrorHandlers
                 /\ response[w].status = 200
                 /\ response[w].body = EmptyBody
            /\ (request[w].path \in KnownPaths
                    /\ request[w].method \in Registered(request[w].path)) =>
                 ran[w] \notin (ErrorHandlers \cup {"automatic_options"})

C10_Witness ==
    \E w \in Workers :
        /\ Done(w)
        /\ request[w].path = "/api/calling/token"
        /\ request[w].method = "DELETE"
        /\ response[w].status = 405

====
